---- MODULE Spec2Model ----
(***************************************************************************)
(* Model of slides/autopilot/autotest.py: the resumable control loop that  *)
(* replays the snippets of a slide deck against a tmux session, its        *)
(* persisted State, the Remote slide synchronisation and the terminal      *)
(* wait / verification helpers.                                            *)
(*                                                                         *)
(* Text is modelled as a sequence of one-character strings, so that the    *)
(* string operations of the program (rstrip, endswith, strip, replace,     *)
(* re.findall) are computed character by character as Python does.         *)
(***************************************************************************)
EXTENDS Integers, Sequences, FiniteSets, TLC

(***************************************************************************)
(* Bounds of the model (not program constants).                            *)
(***************************************************************************)
\* lines of a captured screen
MaxLines == 3
\* trailing newlines after the last line of a captured screen
MaxTrail == 2
\* events recorded for one loop iteration before an interactive catch-up
\* stops accepting further single-slide commands
MaxLog == 5
\* lowest slide an operator steps back to during an interactive catch-up
MinSlideDepth == 1
\* the operator enters jump targets in -JumpSpan .. len(actions)+JumpSpan
JumpSpan == 1

(***************************************************************************)
(* Program constants.                                                      *)
(***************************************************************************)
TIMEOUT == 60

NL == "\n"

\* the backquote character (a TLA+ string cannot hold it: "~" stands for it)
BackTick == "~"

(***************************************************************************)
(* Text helpers: Python str methods on sequences of characters.            *)
(***************************************************************************)
Whitespace == {" ", NL, "\t", "\r"}

WordChars == {"a", "b", "c", "d", "e", "h", "i", "l", "n", "o", "s", "x",
              "0", "1", "2", "T", "U", "_"}

Digits == {"0", "1", "2"}

DigitValue(c) == CASE c = "0" -> 0 [] c = "1" -> 1 [] c = "2" -> 2

\* s[i:j] in Python terms with 1-based inclusive bounds
Slice(s, i, j) == IF j < i THEN <<>> ELSE SubSeq(s, i, j)

\* s.startswith(p, i-1): p occurs in s at position i
MatchAt(s, p, i) ==
    /\ i >= 1
    /\ i + Len(p) - 1 <= Len(s)
    /\ \A k \in 1..Len(p) : s[i + k - 1] = p[k]

\* s.endswith(p)
EndsWith(s, p) == Len(p) <= Len(s) /\ MatchAt(s, p, Len(s) - Len(p) + 1)

\* needle in s
Contains(s, needle) == \E i \in 1..(Len(s) + 1) : MatchAt(s, needle, i)

\* s.rstrip(chars)
RECURSIVE RStrip(_, _)
RStrip(s, chars) ==
    IF Len(s) > 0 /\ s[Len(s)] \in chars
    THEN RStrip(SubSeq(s, 1, Len(s) - 1), chars)
    ELSE s

\* s.lstrip(chars)
RECURSIVE LStrip(_, _)
LStrip(s, chars) ==
    IF Len(s) > 0 /\ s[1] \in chars THEN LStrip(Tail(s), chars) ELSE s

\* s.strip()
Strip(s) == LStrip(RStrip(s, Whitespace), Whitespace)

\* s.replace(c, '') for a single character c
RemoveChar(s, c) == SelectSeq(s, LAMBDA x : x # c)

\* s.replace(old, new) for a non-empty old: leftmost, non-overlapping
RECURSIVE ReplaceFrom(_, _, _, _)
ReplaceFrom(s, old, new, i) ==
    IF i > Len(s) THEN <<>>
    ELSE IF MatchAt(s, old, i)
         THEN new \o ReplaceFrom(s, old, new, i + Len(old))
         ELSE <<s[i]>> \o ReplaceFrom(s, old, new, i + 1)

Replace(s, old, new) == ReplaceFrom(s, old, new, 1)

\* length of the maximal run of characters of cls starting at position i
RECURSIVE RunLen(_, _, _)
RunLen(s, cls, i) ==
    IF i <= Len(s) /\ s[i] \in cls THEN 1 + RunLen(s, cls, i + 1) ELSE 0

\* int(digits)
RECURSIVE ParseInt(_)
ParseInt(d) ==
    IF Len(d) = 0 THEN 0
    ELSE 10 * ParseInt(SubSeq(d, 1, Len(d) - 1)) + DigitValue(d[Len(d)])

\* s.split('\n')
RECURSIVE SplitLines(_)
SplitLines(s) ==
    IF \A i \in 1..Len(s) : s[i] # NL THEN <<s>>
    ELSE LET k == CHOOSE i \in 1..Len(s) :
                     s[i] = NL /\ \A j \in 1..(i - 1) : s[j] # NL
         IN <<Slice(s, 1, k - 1)>> \o SplitLines(Slice(s, k + 1, Len(s)))

\* Python indexing seq[i] for a 0-based, possibly negative i: the 1-based
\* position, or 0 when Python raises IndexError
PyIndex(n, i) ==
    IF 0 <= i /\ i < n THEN i + 1
    ELSE IF -n <= i /\ i < 0 THEN n + i + 1
    ELSE 0

(***************************************************************************)
(* The action list (lines 249-260).  An action is (slide, snippet, method, *)
(* data); the model keeps the slide number, the method and the data.       *)
(* Slides are numbered in deck order, so slide numbers never decrease      *)
(* along the list.                                                         *)
(***************************************************************************)
Action(n, m, d) == [slide |-> n, method |-> m, data |-> d]

EchoHi == <<"e", "c", "h", "o", " ", "h", "i">>
Hi == <<"h", "i">>
Ls == <<"l", "s">>
\* a multi-line shell snippet with an indented continuation line, a
\* highlighted word and trailing blanks
LsIndented == <<"l", BackTick, "s", BackTick, NL, " ", " ", "x", " ", NL>>
CtrlC == <<"^", "C">>
\* the regular expression  id: (\w+)
IdRegex == <<"i", "d", ":", " ", "(", "\\", "w", "+", ")">>
\* a regular expression made of literal characters, spanning two lines
TwoLineRegex == <<"x", NL, "x">>
UrlTemplate == <<"u", "/", "n", "o", "d", "e", "1">>

ActionLists ==
    { << Action(1, "bash", EchoHi), Action(1, "wait", Hi) >>,
      << Action(1, "keys", CtrlC), Action(2, "bash", Ls),
         Action(2, "copypaste", IdRegex), Action(3, "wait", Hi) >>,
      << Action(1, "bash", LsIndented), Action(2, "longwait", Hi),
         Action(3, "open", UrlTemplate) >>,
      << Action(2, "copypaste", TwoLineRegex), Action(3, "bash", Ls) >> }

(***************************************************************************)
(* Captured screens: what capture_pane() may return.  A screen is a list   *)
(* of lines joined by newlines, followed by some trailing newlines.        *)
(***************************************************************************)
SeqsUpTo(S, n) == UNION { [1..k -> S] : k \in 0..n }

RECURSIVE JoinLines(_)
JoinLines(ls) ==
    IF Len(ls) = 0 THEN <<>>
    ELSE IF Len(ls) = 1 THEN ls[1]
    ELSE ls[1] \o <<NL>> \o JoinLines(Tail(ls))

Newlines(t) == [i \in 1..t |-> NL]

ScreensOf(lines) ==
    { JoinLines(ls) \o Newlines(t) : ls \in SeqsUpTo(lines, MaxLines), t \in 0..MaxTrail }

\* the token of one exit-status check (uuid4().hex), one symbol in the model
Token == <<"T">>

PromptLines == { <<"$">>, <<"/", " ", "#">>, <<"x", "$">>, <<"x", " ", "#">>, <<"x">> }
StatusLines == { <<"T", " ", "0">>, <<"T", " ", "1">>, <<"U", " ", "0">>, <<"x">> }
CopyLines == { <<"i", "d", ":", " ", "a">>, <<"i", "d", ":", " ", "b">>, <<"x">> }
OpenLines == { <<"[", "h", "]">>, <<"x">> }

\* screens the control loop sees while it polls for a prompt or a string
LoopPromptScreens == { <<"x", NL, "$", NL>>, <<"x", NL, "x", "$", NL>> }
LoopStringScreens == { <<"x", NL, "h", "i", NL>>, <<"x", NL>> }

(***************************************************************************)
(* The test wait_for_prompt makes of one capture (lines 174-178).                  *)
(***************************************************************************)
EndsWithPromptNoTrim(output) ==
    \/ EndsWith(output, <<NL, "$">>)
    \/ EndsWith(output, <<NL, "/", " ", "#">>)

EndsWithPrompt(output) ==
    LET trimmed == RStrip(output, {NL})
    IN \/ EndsWith(trimmed, <<NL, "$">>)
       \/ EndsWith(trimmed, <<NL, "/", " ", "#">>)

(***************************************************************************)
(* The re.findall of line 193 (newline, token, space, a group of digits,   *)
(* newline): leftmost, non-overlapping matches; each match consumes both   *)
(* of its newlines.                                                        *)
(***************************************************************************)
RECURSIVE StatusFindFrom(_, _, _)
StatusFindFrom(token, screen, i) ==
    LET head == <<NL>> \o token \o <<" ">>
        d == RunLen(screen, Digits, i + Len(head))
        stop == i + Len(head) + d
    IN IF i > Len(screen) THEN <<>>
       ELSE IF MatchAt(screen, head, i) /\ d >= 1
               /\ stop <= Len(screen) /\ screen[stop] = NL
            THEN <<Slice(screen, i + Len(head), stop - 1)>>
                 \o StatusFindFrom(token, screen, stop + 1)
            ELSE StatusFindFrom(token, screen, i + 1)

StatusFindAll(token, screen) == StatusFindFrom(token, screen, 1)

\* the outcome of lines 193-202 for a captured screen
ExitStatusOutcome(token, screen) ==
    LET status == StatusFindAll(token, screen)
    IN IF Len(status) = 0 THEN [kind |-> "no_status", code |-> 0]
       ELSE IF Len(status) > 1 THEN [kind |-> "many_status", code |-> 0]
       ELSE IF ParseInt(status[1]) # 0
            THEN [kind |-> "nonzero", code |-> ParseInt(status[1])]
            ELSE [kind |-> "ok", code |-> 0]

(***************************************************************************)
(* re.findall(data, screen, flags=re.DOTALL) (line 376) for the regular    *)
(* expressions of the action lists: literal characters, optionally ended   *)
(* by the group (\w+).  With a group findall yields the group's text,      *)
(* without one the whole match.                                            *)
(***************************************************************************)
WordGroup == <<"(", "\\", "w", "+", ")">>

RegexHasGroup(regex) == EndsWith(regex, WordGroup)

RegexLiteral(regex) ==
    IF RegexHasGroup(regex) THEN Slice(regex, 1, Len(regex) - Len(WordGroup)) ELSE regex

RECURSIVE RegexFindFrom(_, _, _)
RegexFindFrom(regex, screen, i) ==
    LET lit == RegexLiteral(regex)
        w == IF RegexHasGroup(regex) THEN RunLen(screen, WordChars, i + Len(lit)) ELSE 0
        stop == i + Len(lit) + w
    IN IF i > Len(screen) \/ Len(lit) = 0 THEN <<>>
       ELSE IF MatchAt(screen, lit, i) /\ (RegexHasGroup(regex) => w >= 1)
            THEN <<IF RegexHasGroup(regex) THEN Slice(screen, i + Len(lit), stop - 1)
                   ELSE lit>>
                 \o RegexFindFrom(regex, screen, stop)
            ELSE RegexFindFrom(regex, screen, i + 1)

RegexFindAll(regex, screen) == RegexFindFrom(regex, screen, 1)

(***************************************************************************)
(* The re.findall of line 390 (an opening bracket at the start of a line, *)
(* a greedy group, a closing bracket; re.MULTILINE): one match per line    *)
(* that starts with a bracket and holds a closing one; the group runs to   *)
(* the last closing bracket of the line.                                   *)
(***************************************************************************)
LastBracket(line) ==
    IF \E k \in 2..Len(line) : line[k] = "]"
    THEN CHOOSE k \in 2..Len(line) :
             line[k] = "]" /\ \A j \in (k + 1)..Len(line) : line[j] # "]"
    ELSE 0

BracketFindAll(screen) ==
    LET lines == SplitLines(screen)
        hit(l) == Len(l) >= 2 /\ l[1] = "[" /\ LastBracket(l) > 0
        hits == SelectSeq(lines, hit)
    IN [k \in 1..Len(hits) |-> Slice(hits[k], 2, LastBracket(hits[k]) - 1)]

(***************************************************************************)
(* send_keys (lines 263-275): the arguments of the successive              *)
(* "tmux send-keys" calls.                                                 *)
(***************************************************************************)
SendKeysRaises(simulate, data) == simulate /\ Len(data) = 0

SendKeysCalls(simulate, data) ==
    IF simulate /\ data[1] # "^"
    THEN [k \in 1..Len(data) |-> IF data[k] = ";" THEN <<"\\", ";">> ELSE <<data[k]>>]
    ELSE <<data>>

(***************************************************************************)
(* Preparation of the data of the current action: strip() (line 302),      *)
(* removal of backticks (lines 327-329), and for bash the re.sub of line   *)
(* 358 that drops the blanks following a newline.                         *)
(***************************************************************************)
PrepareData(data) == RemoveChar(Strip(data), BackTick)

RECURSIVE StripIndentFrom(_, _)
StripIndentFrom(s, i) ==
    LET sp == RunLen(s, {" "}, i + 1)
    IN IF i > Len(s) THEN <<>>
       ELSE IF s[i] = NL /\ sp >= 1
            THEN <<NL>> \o StripIndentFrom(s, i + 1 + sp)
            ELSE <<s[i]>> \o StripIndentFrom(s, i + 1)

StripIndent(s) == StripIndentFrom(s, 1)

(***************************************************************************)
(* The durable record state.yaml.  A YAML value of a flag is "true",       *)
(* "false", "str" (a non-empty string) or "absent" (no such key); the      *)
(* value of next_step is an integer, a non-numeric string or absent.       *)
(***************************************************************************)
YFlags == {"true", "false", "str", "absent"}

YInt(n) == [tag |-> "int", val |-> n]
YNoInt(t) == [tag |-> t, val |-> 0]

Record(k, i, v, s, n) ==
    [kind |-> k, interactive |-> i, verify_status |-> v, simulate_type |-> s,
     next_step |-> n]

\* no state.yaml
NoFile == Record("missing", "absent", "absent", "absent", YNoInt("absent"))
\* state.yaml of length zero: what open("state.yaml", "w") leaves
EmptyFile == Record("empty", "absent", "absent", "absent", YNoInt("absent"))
\* a YAML document that is no mapping
ScalarFile == Record("scalar", "absent", "absent", "absent", YNoInt("absent"))

YBool(b) == IF b THEN "true" ELSE "false"

\* bool(value) (lines 32-34)
PyBool(y) == y # "false"

(***************************************************************************)
(* State (lines 22-43).                                                    *)
(***************************************************************************)
\* State.__init__
DefaultState ==
    [interactive |-> TRUE, verify_status |-> FALSE, simulate_type |-> TRUE,
     next_step |-> 0]

\* a dump that writes two of the flags under each other's key
DumpSwapsFlags(st) ==
    Record("map", YBool(st.verify_status), YBool(st.interactive),
           YBool(st.simulate_type), YInt(st.next_step))

\* what yaml.dump writes in State.save
DumpState(st) ==
    Record("map", YBool(st.interactive), YBool(st.verify_status),
           YBool(st.simulate_type), YInt(st.next_step))

\* State.load: the fields are assigned one after the other, an exception
\* leaves the earlier assignments in place
LoadState(st, d) ==
    LET s1 == [st EXCEPT !.interactive = PyBool(d.interactive)]
        s2 == [s1 EXCEPT !.verify_status = PyBool(d.verify_status)]
        s3 == [s2 EXCEPT !.simulate_type = PyBool(d.simulate_type)]
        s4 == [s3 EXCEPT !.next_step = d.next_step.val]
    IN IF d.kind # "map" \/ d.interactive = "absent" THEN [state |-> st, ok |-> FALSE]
       ELSE IF d.verify_status = "absent" THEN [state |-> s1, ok |-> FALSE]
       ELSE IF d.simulate_type = "absent" THEN [state |-> s2, ok |-> FALSE]
       ELSE IF d.next_step.tag # "int" THEN [state |-> s3, ok |-> FALSE]
       ELSE [state |-> s4, ok |-> TRUE]

\* a startup that trusts the interactive flag of the record
StartupKeepMode(d) == LoadState(DefaultState, d).state

\* the startup of lines 284-293: load, then force interactive after a
\* successful load; after a failed one only log
Startup(d) ==
    LET r == LoadState(DefaultState, d)
    IN IF r.ok THEN [r.state EXCEPT !.interactive = TRUE] ELSE r.state

(***************************************************************************)
(* Variables.                                                              *)
(***************************************************************************)
VARIABLES
    actions,          \* the action list of the deck (never changes)
    state,            \* the State object
    disk,             \* the contents of state.yaml
    slide_on_screen,  \* Remote.slide_on_screen
    pc,               \* where the process is
    sync,             \* calls of Remote.goto and operator reads of this iteration
    term,             \* calls on the terminal made by the current dispatch
    screen,           \* the text held from the latest capture_pane()
    now,              \* time.time(), counted from the start of the current wait
    deadline,         \* the deadline of the current wait
    last              \* how the latest process ended, until the next run loops

vars == <<actions, state, disk, slide_on_screen, pc, sync, term, screen, now,
          deadline, last>>

Ev(op, txt, n) == [op |-> op, txt |-> txt, n |-> n]

NoExit == [kind |-> "none", cursor |-> 0]

\* Python's actions[i]
ActionAt(i) == actions[PyIndex(Len(actions), i)]
HasAction(i) == PyIndex(Len(actions), i) # 0

Current == ActionAt(state.next_step)

\* the data of the current action as prepared by lines 302 and 327-329
CurrentData == PrepareData(Current.data)

JumpInputs == (0 - JumpSpan)..(Len(actions) + JumpSpan)

InitDisks(len) ==
    {NoFile, EmptyFile, ScalarFile}
    \cup { Record("map", i, v, s, n) :
             i \in YFlags, v \in YFlags, s \in YFlags,
             n \in {YNoInt("absent"), YNoInt("str")}
                   \cup { YInt(k) : k \in (0 - JumpSpan)..(len + JumpSpan) } }

Init ==
    /\ actions \in ActionLists
    /\ disk \in InitDisks(Len(actions))
    /\ state = DefaultState
    /\ slide_on_screen = 0
    /\ pc = "start"
    /\ sync = <<>>
    /\ term = <<>>
    /\ screen = <<>>
    /\ now = 0
    /\ deadline = 0
    /\ last = NoExit

\* an exception reaches the top level, or the loop ends: the process exits
Exit(kind) ==
    /\ pc' = "exited"
    /\ last' = [kind |-> kind, cursor |-> state.next_step]
    /\ UNCHANGED <<now, deadline>>

(***************************************************************************)
(* The operator runs the program again: module level code up to line 283.  *)
(***************************************************************************)
Restart ==
    /\ pc = "exited"
    /\ pc' = "start"
    /\ state' = DefaultState
    /\ slide_on_screen' = 0
    /\ sync' = <<>>
    /\ term' = <<>>
    /\ screen' = <<>>
    /\ now' = 0
    /\ deadline' = 0
    /\ UNCHANGED <<actions, disk, last>>

(***************************************************************************)
(* Lines 284-293.                                                          *)
(***************************************************************************)
Load ==
    /\ pc = "start"
    /\ state' = Startup(disk)
    /\ pc' = "loaded"
    /\ screen' = <<>>
    /\ now' = 0
    /\ deadline' = 0
    /\ UNCHANGED <<actions, disk, slide_on_screen, sync, term, last>>

\* a loop that also saves the state once the cursor has reached the end
LoopTestSavesAtEnd ==
    /\ pc \in {"loaded", "next"}
    /\ IF state.next_step < Len(actions)
       THEN /\ disk' = EmptyFile
            /\ pc' = "save"
            /\ last' = NoExit
            /\ sync' = <<>>
            /\ term' = <<>>
            /\ screen' = <<>>
            /\ UNCHANGED <<actions, state, slide_on_screen, now, deadline>>
       ELSE /\ Exit("complete")
            /\ disk' = DumpState(state)
            /\ UNCHANGED <<actions, state, slide_on_screen, sync, term, screen>>

(***************************************************************************)
(* Line 296, and the open(..., "w") of State.save, which truncates the     *)
(* file.  The dumped text stays in the file object's buffer until the      *)
(* with block closes the file.                                             *)
(***************************************************************************)
LoopTest ==
    /\ pc \in {"loaded", "next"}
    /\ IF state.next_step < Len(actions)
       THEN /\ disk' = EmptyFile
            /\ pc' = "save"
            /\ last' = NoExit
            /\ sync' = <<>>
            /\ term' = <<>>
            /\ screen' = <<>>
            /\ UNCHANGED <<actions, state, slide_on_screen, now, deadline>>
       ELSE /\ Exit("complete")
            /\ UNCHANGED <<actions, state, disk, slide_on_screen, sync, term, screen>>

\* the process is killed inside save(), after the truncation and before the
\* buffer reaches the file
CrashInSave ==
    /\ pc = "save"
    /\ Exit("crash")
    /\ UNCHANGED <<actions, state, disk, slide_on_screen, sync, term, screen>>

\* a loop that goes from the save to the command without the catch-up of
\* line 305
SaveThenCommand ==
    /\ pc = "save"
    /\ disk' = DumpState(state)
    /\ IF HasAction(state.next_step)
       THEN /\ pc' = "command"
            /\ UNCHANGED last
       ELSE /\ pc' = "exited"
            /\ last' = [kind |-> "index", cursor |-> state.next_step]
    /\ UNCHANGED <<actions, state, slide_on_screen, sync, term, screen, now, deadline>>

\* the end of State.save (the buffer is written, the file closed), then
\* line 299
SaveWrite ==
    /\ pc = "save"
    /\ disk' = DumpState(state)
    /\ IF HasAction(state.next_step)
       THEN /\ pc' = "catchup"
            /\ UNCHANGED last
       ELSE /\ pc' = "exited"
            /\ last' = [kind |-> "index", cursor |-> state.next_step]
    /\ UNCHANGED <<actions, state, slide_on_screen, sync, term, screen, now, deadline>>

(***************************************************************************)
(* Remote (lines 100-133).                                                 *)
(***************************************************************************)
\* a goto that calls gotoslide.js and does not note the slide it went to
GotoKeepsSlide(calls, n) ==
    /\ UNCHANGED slide_on_screen
    /\ sync' = Append(calls, Ev("goto", <<>>, n))

\* Remote.goto, after the calls already made in this step
Goto(calls, n) ==
    /\ slide_on_screen' = n
    /\ sync' = Append(calls, Ev("goto", <<>>, n))

\* a catch-up that steps back one slide when it is ahead
CatchupAheadStepwise(n) ==
    /\ Goto(sync, slide_on_screen - 1)
    /\ pc' = IF slide_on_screen - 1 > n THEN "catchup" ELSE "command"

\* Remote.catchup when ahead of slide n (lines 113-114)
CatchupAhead(n) ==
    /\ Goto(sync, n)
    /\ pc' = "command"

CatchupEnter ==
    /\ pc = "catchup"
    /\ IF slide_on_screen > Current.slide
       THEN CatchupAhead(Current.slide)
       ELSE /\ pc' = "catchup_loop"
            /\ UNCHANGED <<slide_on_screen, sync>>
    /\ UNCHANGED <<actions, state, disk, term, screen, now, deadline, last>>

CatchupKeys == {"z", "enter", "n", "right", "space", "p", "left", "q", "x"}

Getchar == Ev("getchar", <<>>, 0)

\* one turn of the while loop of lines 115-133 (or its end)
CatchupLoop ==
    /\ pc = "catchup_loop"
    /\ IF slide_on_screen < Current.slide
       THEN IF state.interactive
            THEN \E command \in CatchupKeys :
                   LET read == Append(sync, Getchar)
                   IN /\ command \notin {"z", "enter", "q"} => Len(sync) + 2 <= MaxLog
                      /\ IF command \in {"z", "enter"}
                         THEN /\ Goto(read, Current.slide)
                              /\ pc' = "catchup_loop"
                         ELSE IF command \in {"n", "right", "space"}
                         THEN /\ Goto(read, slide_on_screen + 1)
                              /\ pc' = "catchup_loop"
                         ELSE IF command \in {"p", "left"}
                         THEN /\ slide_on_screen > 0 - MinSlideDepth
                              /\ Goto(read, slide_on_screen - 1)
                              /\ pc' = "catchup_loop"
                         ELSE IF command = "q"
                         THEN /\ sync' = read
                              /\ pc' = "command"
                              /\ UNCHANGED slide_on_screen
                         ELSE /\ sync' = read
                              /\ pc' = "catchup_loop"
                              /\ UNCHANGED slide_on_screen
            ELSE /\ Goto(sync, Current.slide)
                 /\ pc' = "catchup_loop"
       ELSE /\ pc' = "command"
            /\ UNCHANGED <<slide_on_screen, sync>>
    /\ UNCHANGED <<actions, state, disk, term, screen, now, deadline, last>>

(***************************************************************************)
(* The command of lines 310-323 and its application, lines 331-349 and     *)
(* 402-403.  In interactive mode the operator presses one key; otherwise   *)
(* the command is "y".                                                     *)
(***************************************************************************)
\* the run may take a command among keys
Takes(keys) == state.interactive \/ "y" \in keys

\* the operator reads made so far in this iteration, with this one
Read == IF state.interactive THEN Append(sync, Getchar) ELSE sync

\* "n" and the right arrow
CmdAdvance ==
    /\ pc = "command" /\ Takes({"n", "right"})
    /\ state' = [state EXCEPT !.next_step = @ + 1]
    /\ sync' = Read
    /\ pc' = "next"
    /\ UNCHANGED <<actions, disk, slide_on_screen, term, screen, now, deadline, last>>

\* "p" and the left arrow
CmdRetreat ==
    /\ pc = "command" /\ Takes({"p", "left"})
    /\ state' = [state EXCEPT !.next_step = @ - 1]
    /\ sync' = Read
    /\ pc' = "next"
    /\ UNCHANGED <<actions, disk, slide_on_screen, term, screen, now, deadline, last>>

CmdToggleSimulate ==
    /\ pc = "command" /\ Takes({"s"})
    /\ state' = [state EXCEPT !.simulate_type = ~@]
    /\ sync' = Read
    /\ pc' = "next"
    /\ UNCHANGED <<actions, disk, slide_on_screen, term, screen, now, deadline, last>>

CmdToggleVerify ==
    /\ pc = "command" /\ Takes({"v"})
    /\ state' = [state EXCEPT !.verify_status = ~@]
    /\ sync' = Read
    /\ pc' = "next"
    /\ UNCHANGED <<actions, disk, slide_on_screen, term, screen, now, deadline, last>>

\* a jump that resets the deck whenever the target is not beyond step 0
JumpResetsLow(k) ==
    /\ state' = [state EXCEPT !.next_step = k]
    /\ IF k <= 0
       THEN Goto(Append(Read, Ev("prompt", <<>>, k)), 1)
       ELSE /\ sync' = Append(Read, Ev("prompt", <<>>, k))
            /\ UNCHANGED slide_on_screen

\* lines 340-343 for the number k the operator enters
Jump(k) ==
    /\ state' = [state EXCEPT !.next_step = k]
    /\ IF k = 0
       THEN Goto(Append(Read, Ev("prompt", <<>>, k)), 1)
       ELSE /\ sync' = Append(Read, Ev("prompt", <<>>, k))
            /\ UNCHANGED slide_on_screen

CmdJump ==
    /\ pc = "command" /\ Takes({"g"})
    /\ \E k \in JumpInputs : Jump(k)
    /\ pc' = "next"
    /\ UNCHANGED <<actions, disk, term, screen, now, deadline, last>>

CmdQuit ==
    /\ pc = "command" /\ Takes({"q"})
    /\ Exit("quit")
    /\ sync' = Read
    /\ UNCHANGED <<actions, state, disk, slide_on_screen, term, screen>>

\* a "c" that goes on to lines 350-400 within the same iteration
CmdContinueFallsThrough ==
    /\ pc = "command" /\ Takes({"c"})
    /\ state' = [state EXCEPT !.interactive = FALSE]
    /\ sync' = <<>>
    /\ pc' = "dispatch"
    /\ UNCHANGED <<actions, disk, slide_on_screen, term, screen, now, deadline, last>>

\* "c": only the flag changes; the if/elif chain ends here
CmdContinue ==
    /\ pc = "command" /\ Takes({"c"})
    /\ state' = [state EXCEPT !.interactive = FALSE]
    /\ sync' = Read
    /\ pc' = "next"
    /\ UNCHANGED <<actions, disk, slide_on_screen, term, screen, now, deadline, last>>

\* "y", return and space: lines 350-351, the dispatch follows
CmdExecute ==
    /\ pc = "command" /\ Takes({"y", "enter", "space"})
    /\ sync' = <<>>
    /\ term' = <<>>
    /\ pc' = "dispatch"
    /\ UNCHANGED <<actions, state, disk, slide_on_screen, screen, now, deadline, last>>

\* any other key (lines 402-403)
CmdUnknown ==
    /\ pc = "command" /\ Takes({"x"})
    /\ sync' = Read
    /\ pc' = "next"
    /\ UNCHANGED <<actions, state, disk, slide_on_screen, term, screen, now, deadline, last>>

(***************************************************************************)
(* Waiting on the terminal (lines 157-180).  A wait is entered with the    *)
(* clock at 0 and the deadline at the timeout; one turn of its loop is a   *)
(* capture, the test of the captured text, and a sleep of a second or more.*)
(***************************************************************************)
\* seconds one time.sleep(1) and the capture after it may take
MaxTick == 2

EnterWait(timeout) ==
    /\ now' = 0
    /\ deadline' = timeout

\* where wait_for_prompt is polling, where it tests a capture, and where the
\* program goes on when it returns
PromptWaits == {"boot", "bash_ready", "wait_done", "status_wait"}

TestOf(p) ==
    CASE p = "boot" -> "boot_test"
      [] p = "bash_ready" -> "bash_ready_test"
      [] p = "wait_done" -> "wait_done_test"
      [] p = "status_wait" -> "status_wait_test"
      [] p = "wait_string" -> "wait_string_test"

WaitOf(p) ==
    CASE p = "boot_test" -> "boot"
      [] p = "bash_ready_test" -> "bash_ready"
      [] p = "wait_done_test" -> "wait_done"
      [] p = "status_wait_test" -> "status_wait"
      [] p = "wait_string_test" -> "wait_string"

ResumeOf(p) ==
    CASE p = "boot_test" -> "start"
      [] p = "bash_ready_test" -> "bash_send"
      [] p = "wait_done_test" -> "check_status"
      [] p = "status_wait_test" -> "status_read"
      [] p = "wait_string_test" -> "string_found"

PromptTests == { TestOf(p) : p \in PromptWaits }

\* lines 171-172 (and 160-161): the deadline has not passed, capture
WaitCapture(waits, source) ==
    /\ pc \in waits
    /\ now < deadline
    /\ screen' \in source
    /\ pc' = TestOf(pc)
    /\ UNCHANGED <<actions, state, disk, slide_on_screen, sync, term, now, deadline, last>>

\* the wait returns; its deadline is gone with it
WaitReturn ==
    /\ pc' = ResumeOf(pc)
    /\ now' = 0
    /\ deadline' = 0
    /\ UNCHANGED screen

\* time.sleep(1), back to the loop test
WaitSleep ==
    /\ \E tick \in 1..MaxTick : now' = now + tick
    /\ pc' = WaitOf(pc)
    /\ screen' = <<>>
    /\ UNCHANGED deadline

\* lines 174-179
WaitPromptTest ==
    /\ pc \in PromptTests
    /\ IF EndsWithPrompt(screen) THEN WaitReturn ELSE WaitSleep
    /\ UNCHANGED <<actions, state, disk, slide_on_screen, sync, term, last>>

\* the string the current wait_for_string waits for: the data of the next
\* action as parsed (lines 365-369)
Needle == ActionAt(state.next_step + 1).data

\* lines 162-164
WaitStringTest ==
    /\ pc = "wait_string_test"
    /\ IF Contains(screen, Needle) THEN WaitReturn ELSE WaitSleep
    /\ UNCHANGED <<actions, state, disk, slide_on_screen, sync, term, last>>

\* lines 165 and 180: the deadline has passed
WaitTimeout ==
    /\ pc \in PromptWaits \cup {"wait_string"}
    /\ now >= deadline
    /\ Exit("timeout")
    /\ UNCHANGED <<actions, state, disk, slide_on_screen, sync, term, screen>>

(***************************************************************************)
(* Dispatch of the current action (lines 352-400).                         *)
(***************************************************************************)
\* send_keys(data), recorded with the number of tmux calls it makes
Sent(simulate, data) == Ev("send_keys", data, Len(SendKeysCalls(simulate, data)))

\* an iteration that ends without line 400
AdvanceMissing == UNCHANGED state

\* line 400
Advance == state' = [state EXCEPT !.next_step = @ + 1]

\* lines 352-353, 400
DoKeys ==
    /\ pc = "dispatch" /\ Current.method = "keys"
    /\ IF SendKeysRaises(state.simulate_type, CurrentData)
       THEN /\ Exit("index")
            /\ UNCHANGED <<state, term>>
       ELSE /\ term' = Append(term, Sent(state.simulate_type, CurrentData))
            /\ Advance
            /\ pc' = "next"
            /\ UNCHANGED <<now, deadline, last>>
    /\ UNCHANGED <<actions, disk, slide_on_screen, sync, screen>>

\* lines 354-356
DoBash ==
    /\ pc = "dispatch" /\ Current.method = "bash"
    /\ term' = Append(term, Ev("wait_for_prompt", <<>>, TIMEOUT))
    /\ EnterWait(TIMEOUT)
    /\ pc' = "bash_ready"
    /\ UNCHANGED <<actions, state, disk, slide_on_screen, sync, screen, last>>

\* the text a bash action sends (lines 358-360)
BashText(data) == StripIndent(data) \o <<NL>>

\* lines 365-371 with a lookahead that takes the next action's method but
\* always waits for a prompt
CompletionPromptOnly(nxt, sent) ==
    /\ term' = Append(sent, Ev("wait_for_prompt", <<>>, TIMEOUT))
    /\ EnterWait(TIMEOUT)
    /\ pc' = "wait_done"

\* lines 366-371: how a bash action waits for its completion, given the
\* next action and the terminal calls made so far
Completion(nxt, sent) ==
    IF nxt.method = "wait"
    THEN /\ term' = Append(sent, Ev("wait_for_string", nxt.data, TIMEOUT))
         /\ EnterWait(TIMEOUT)
         /\ pc' = "wait_string"
    ELSE IF nxt.method = "longwait"
    THEN /\ term' = Append(sent, Ev("wait_for_string", nxt.data, 10 * TIMEOUT))
         /\ EnterWait(10 * TIMEOUT)
         /\ pc' = "wait_string"
    ELSE /\ term' = Append(sent, Ev("wait_for_prompt", <<>>, TIMEOUT))
         /\ EnterWait(TIMEOUT)
         /\ pc' = "wait_done"

\* lines 357-371: the prompt is there; send, look at the next action
BashSend ==
    /\ pc = "bash_send"
    /\ LET text == BashText(CurrentData)
           sent == Append(term, Sent(state.simulate_type, text))
       IN IF HasAction(state.next_step + 1)
          THEN /\ Completion(ActionAt(state.next_step + 1), sent)
               /\ UNCHANGED last
          ELSE /\ term' = sent
               /\ pc' = "exited"
               /\ last' = [kind |-> "index", cursor |-> state.next_step]
               /\ now' = 0
               /\ deadline' = 0
    /\ screen' = <<>>
    /\ UNCHANGED <<actions, state, disk, slide_on_screen, sync>>

\* wait_for_string returned (lines 367/369), then line 400
StringFound ==
    /\ pc = "string_found"
    /\ Advance
    /\ pc' = "next"
    /\ screen' = <<>>
    /\ now' = 0
    /\ deadline' = 0
    /\ UNCHANGED <<actions, disk, slide_on_screen, sync, term, last>>

\* a copy that takes the first match
PasteFirst(matches) == RemoveChar(matches[1], NL) \o <<NL>>

\* the text a copypaste action sends (lines 380-383)
PasteText(matches) == RemoveChar(matches[Len(matches)], NL) \o <<NL>>

\* lines 374-385
DoCopypaste ==
    /\ pc = "dispatch" /\ Current.method = "copypaste"
    /\ screen' \in ScreensOf(CopyLines)
    /\ LET matches == RegexFindAll(CurrentData, screen')
       IN IF Len(matches) = 0
          THEN /\ Exit("regex")
               /\ UNCHANGED term
          ELSE /\ term' = <<Ev("capture_pane", <<>>, 0),
                            Sent(state.simulate_type, PasteText(matches)),
                            Ev("wait_for_prompt", <<>>, TIMEOUT)>>
               /\ EnterWait(TIMEOUT)
               /\ pc' = "wait_done"
               /\ UNCHANGED last
    /\ UNCHANGED <<actions, state, disk, slide_on_screen, sync>>

\* the echo of check_exit_status (line 187)
EchoStatus(token) == <<"e", "c", "h", "o", " ">> \o token \o <<" ", "$", "?", NL>>

\* check_exit_status, lines 184-191; when it returns at once, line 400
CheckStatus ==
    /\ pc = "check_status"
    /\ IF ~state.verify_status
       THEN /\ Advance
            /\ pc' = "next"
            /\ now' = 0
            /\ deadline' = 0
            /\ UNCHANGED term
       ELSE /\ term' = term \o <<Sent(state.simulate_type, EchoStatus(Token)),
                                 Ev("wait_for_prompt", <<>>, TIMEOUT)>>
            /\ EnterWait(TIMEOUT)
            /\ pc' = "status_wait"
            /\ UNCHANGED state
    /\ screen' = <<>>
    /\ UNCHANGED <<actions, disk, slide_on_screen, sync, last>>

\* check_exit_status, lines 192-202; when it returns, line 400
StatusRead ==
    /\ pc = "status_read"
    /\ screen' \in ScreensOf(StatusLines)
    /\ LET outcome == ExitStatusOutcome(Token, screen')
       IN IF outcome.kind = "ok"
          THEN /\ Advance
               /\ pc' = "next"
               /\ UNCHANGED last
          ELSE /\ pc' = "exited"
               /\ last' = [kind |-> outcome.kind, cursor |-> state.next_step]
               /\ UNCHANGED state
    /\ now' = 0
    /\ deadline' = 0
    /\ term' = Append(term, Ev("capture_pane", <<>>, 0))
    /\ UNCHANGED <<actions, disk, slide_on_screen, sync>>

NodePlaceholder == <<"/", "n", "o", "d", "e", "1">>

\* the URL an open action opens (line 391)
OpenUrl(data, ipaddr) == Replace(data, NodePlaceholder, <<"/">> \o ipaddr)

\* lines 387-395: line 395 reads the global name status, which nothing
\* defines, so the action ends in a NameError once the browser is open
DoOpen ==
    /\ pc = "dispatch" /\ Current.method = "open"
    /\ screen' \in ScreensOf(OpenLines)
    /\ LET found == BracketFindAll(screen')
       IN IF Len(found) = 0
          THEN /\ Exit("index")
               /\ term' = <<Ev("capture_pane", <<>>, 0)>>
          ELSE /\ term' = <<Ev("capture_pane", <<>>, 0),
                            Ev("xdg-open", OpenUrl(CurrentData, found[Len(found)]), 0),
                            Ev("focus_browser", <<>>, 0)>>
               /\ Exit("name")
    /\ UNCHANGED <<actions, state, disk, slide_on_screen, sync>>

Methods == {"keys", "bash", "copypaste", "open"}

\* lines 398-400
DoUnknown ==
    /\ pc = "dispatch" /\ Current.method \notin Methods
    /\ Advance
    /\ pc' = "next"
    /\ UNCHANGED <<actions, disk, slide_on_screen, sync, term, screen, now, deadline, last>>

(***************************************************************************)
(* The program from line 284 on.                                           *)
(***************************************************************************)
Next ==
    \/ Restart
    \/ Load
    \/ LoopTest
    \/ CrashInSave
    \/ SaveWrite
    \/ CatchupEnter
    \/ CatchupLoop
    \/ CmdAdvance
    \/ CmdRetreat
    \/ CmdToggleSimulate
    \/ CmdToggleVerify
    \/ CmdJump
    \/ CmdQuit
    \/ CmdContinue
    \/ CmdExecute
    \/ CmdUnknown
    \/ DoKeys
    \/ DoBash
    \/ DoCopypaste
    \/ DoOpen
    \/ DoUnknown
    \/ WaitCapture(PromptWaits, LoopPromptScreens)
    \/ WaitCapture({"wait_string"}, LoopStringScreens)
    \/ WaitPromptTest
    \/ WaitStringTest
    \/ WaitTimeout
    \/ BashSend
    \/ StringFound
    \/ CheckStatus
    \/ StatusRead

Spec == Init /\ [][Next]_vars

(***************************************************************************)
(* The wait_for_prompt of setup_tmux_and_ssh (line 226), which runs before *)
(* the state is loaded, against every screen made of the prompt lines.     *)
(***************************************************************************)
InitWait ==
    /\ actions \in ActionLists
    /\ disk = NoFile
    /\ state = DefaultState
    /\ slide_on_screen = 0
    /\ pc = "boot"
    /\ sync = <<>>
    /\ term = <<>>
    /\ screen = <<>>
    /\ now = 0
    /\ deadline = TIMEOUT
    /\ last = NoExit

NextWait ==
    \/ WaitCapture({"boot"}, ScreensOf(PromptLines))
    \/ WaitPromptTest
    \/ WaitTimeout

SpecWait == InitWait /\ [][NextWait]_vars

(***************************************************************************)
(* State.save followed by State.load into a fresh State object (lines      *)
(* 22-43), for every state whose cursor lies in 0 .. len(actions).         *)
(***************************************************************************)
RoundStates(len) ==
    [interactive : BOOLEAN, verify_status : BOOLEAN, simulate_type : BOOLEAN,
     next_step : 0..len]

InitRound ==
    /\ actions \in ActionLists
    /\ state \in RoundStates(Len(actions))
    /\ disk \in {NoFile, EmptyFile}
    /\ slide_on_screen = 0
    /\ pc = "round"
    /\ sync = <<>>
    /\ term = <<>>
    /\ screen = <<>>
    /\ now = 0
    /\ deadline = 0
    /\ last = NoExit

\* State.save
RoundSave ==
    /\ pc = "round"
    /\ disk' = DumpState(state)
    /\ pc' = "round_saved"
    /\ UNCHANGED <<actions, state, slide_on_screen, sync, term, screen, now, deadline, last>>

\* State.load on a State object as __init__ leaves it
RoundLoad ==
    /\ pc = "round_saved"
    /\ state' = LoadState(DefaultState, disk).state
    /\ pc' = IF LoadState(DefaultState, disk).ok THEN "round_loaded" ELSE "round_failed"
    /\ UNCHANGED <<actions, disk, slide_on_screen, sync, term, screen, now, deadline, last>>

NextRound == RoundSave \/ RoundLoad

SpecRound == InitRound /\ [][NextRound]_vars

(***************************************************************************)
(* Properties.                                                             *)
(***************************************************************************)
InRange(cursor) == 0 <= cursor /\ cursor <= Len(actions)

\* C1: an operator command applied while the cursor is within
\* 0 .. len(actions) leaves it within 0 .. len(actions).
C1_CommandsKeepCursorInRange ==
    [][(pc = "command" /\ InRange(state.next_step)) => InRange(state'.next_step)]_vars

\* the failures of a dispatch that the program reports as fatal
Fatal == {"timeout", "no_status", "many_status", "nonzero", "regex"}

\* C2: when the dispatch of the action at the cursor ends in a fatal
\* failure, the record on disk at exit holds that cursor (and is the whole
\* state of the failed run), and the run that next loads it starts at that
\* cursor, on the same action, in interactive mode.
C2_FailedActionIsResumed ==
    /\ (pc = "exited" /\ last.kind \in Fatal) =>
          /\ disk = DumpState(state)
          /\ disk.next_step = YInt(last.cursor)
    /\ (pc = "loaded" /\ last.kind \in Fatal) =>
          /\ state.next_step = last.cursor
          /\ state.interactive
          /\ HasAction(state.next_step)

\* C2 witness: a run that failed in non-interactive mode at the second
\* action has been loaded again.
C2_Witness ==
    /\ pc = "loaded"
    /\ last.kind = "timeout"
    /\ last.cursor = 1
    /\ disk.interactive = "false"
    /\ state.interactive
    /\ state.next_step = 1

\* C3: after a crash inside save the record is a complete one, and the next
\* load of it succeeds.
C3_SaveIsAtomic ==
    (last.kind = "crash" /\ pc \in {"exited", "start", "loaded"}) =>
        /\ disk.kind = "map"
        /\ LoadState(DefaultState, disk).ok

\* C4: whenever the load fails, the run uses exactly the default state.
C4_FailedLoadGivesDefaults ==
    (pc = "loaded" /\ ~LoadState(DefaultState, disk).ok) => state = DefaultState

\* the two-action list of the end-to-end scenario
Scenario == << Action(1, "bash", EchoHi), Action(1, "wait", Hi) >>

StringWaitPcs == {"wait_string", "wait_string_test", "string_found"}

\* a dispatch has just ended well: the loop is about to test the cursor
\* and no operator command was read since the execute command
Dispatched == pc = "next" /\ sync = <<>>

\* C5: in a non-interactive run without exit-status verification, a bash
\* action followed by a wait action first waits for the prompt, then sends
\* its text and a newline, then waits for the data of the wait action (never
\* for a prompt) and only then advances; the wait entry is passed without
\* any call on the terminal, and the scenario list ends with the cursor at 2.
C5_BashThenWait ==
    /\ ( /\ ~state.interactive /\ ~state.verify_status
         /\ pc # "exited" /\ Len(term) >= 2
         /\ HasAction(state.next_step) /\ Current.method = "bash"
         /\ HasAction(state.next_step + 1)
         /\ ActionAt(state.next_step + 1).method = "wait" ) =>
           /\ pc \in StringWaitPcs
           /\ Len(term) = 3
           /\ term[1] = Ev("wait_for_prompt", <<>>, TIMEOUT)
           /\ term[2].op = "send_keys"
           /\ term[2].txt = StripIndent(PrepareData(Current.data)) \o <<NL>>
           /\ actions = Scenario => term[2].txt = EchoHi \o <<NL>>
           /\ term[3] = Ev("wait_for_string", ActionAt(state.next_step + 1).data, TIMEOUT)
    /\ ( /\ Dispatched /\ ~state.interactive /\ ~state.verify_status
         /\ HasAction(state.next_step - 1) /\ HasAction(state.next_step)
         /\ ActionAt(state.next_step - 1).method = "bash"
         /\ ActionAt(state.next_step).method = "wait" ) =>
           /\ Len(term) = 3
           /\ term[3].op = "wait_for_string"
    /\ ( /\ Dispatched /\ ~state.interactive
         /\ HasAction(state.next_step - 1)
         /\ ActionAt(state.next_step - 1).method = "wait" ) => term = <<>>
    /\ ( /\ actions = Scenario /\ ~state.interactive
         /\ pc = "exited" /\ last.kind = "complete" ) => state.next_step = 2

\* C5 witness: the scenario list, run non-interactively, has sent echo hi
\* and found the string hi.
C5_Witness ==
    /\ actions = Scenario
    /\ ~state.interactive /\ ~state.verify_status
    /\ pc = "string_found"
    /\ state.next_step = 0
    /\ term[2].txt = EchoHi \o <<NL>>

\* a line made of the token, a blank and digits
IsStatusLine(token, line) ==
    /\ Len(line) > Len(token) + 1
    /\ MatchAt(line, token \o <<" ">>, 1)
    /\ \A k \in (Len(token) + 2)..Len(line) : line[k] \in Digits

StatusLinesOf(token, text) ==
    SelectSeq(SplitLines(text), LAMBDA l : IsStatusLine(token, l))

StatusCodeOf(token, line) == ParseInt(Slice(line, Len(token) + 2, Len(line)))

\* check_exit_status has sent its echo and read the screen
StatusChecked ==
    /\ pc \in {"next", "exited"}
    /\ Len(term) >= 3
    /\ term[Len(term)].op = "capture_pane"
    /\ term[Len(term) - 2].txt = EchoStatus(Token)

\* a screen as tmux prints it after the echo: every line ends in a
\* newline and the first line (the command line) is no status line
PrintedScreen(token, text) ==
    /\ Len(text) >= 1
    /\ text[Len(text)] = NL
    /\ ~IsStatusLine(token, SplitLines(text)[1])

\* C6: with verify_status set the verification is decided by the number of
\* status lines of the token on the captured screen (taken here among the
\* screens as tmux prints them): one line with code 0 succeeds, one line
\* with another code fails naming the code, none fails with the
\* could-not-retrieve error, two or more fail with the more-than-one error;
\* without verify_status nothing is sent.
C6_StatusByLineCount ==
    /\ (StatusChecked /\ PrintedScreen(Token, screen)) =>
         LET ls == StatusLinesOf(Token, screen)
         IN /\ Len(ls) = 0 => (pc = "exited" /\ last.kind = "no_status")
            /\ Len(ls) >= 2 => (pc = "exited" /\ last.kind = "many_status")
            /\ (Len(ls) = 1 /\ StatusCodeOf(Token, ls[1]) = 0) => pc = "next"
            /\ (Len(ls) = 1 /\ StatusCodeOf(Token, ls[1]) # 0) =>
                  (pc = "exited" /\ last.kind = "nonzero")
    /\ pc \in {"status_wait", "status_wait_test", "status_read"} => state.verify_status

\* C7: a copypaste action whose expression matches the screen sends the
\* last match with its line breaks removed and a newline added; when it
\* matches nothing the dispatch fails, nothing is sent and the cursor stays.
C7_PastesLastMatch ==
    /\ (pc = "wait_done" /\ now = 0 /\ Current.method = "copypaste") =>
         LET found == RegexFindAll(PrepareData(Current.data), screen)
         IN /\ Len(found) >= 1
            /\ Len(term) = 3
            /\ term[2].op = "send_keys"
            /\ term[2].txt = RemoveChar(found[Len(found)], NL) \o <<NL>>
            /\ \A k \in 1..Len(term[2].txt) - 1 : term[2].txt[k] # NL
    /\ (pc = "exited" /\ last.kind = "regex") =>
         /\ RegexFindAll(PrepareData(Current.data), screen) = <<>>
         /\ term = <<>>
         /\ state.next_step = last.cursor
         /\ disk.next_step = YInt(state.next_step)

\* C7 witness: the expression matched twice with different texts and the
\* paste has been sent.
C7_Witness ==
    /\ pc = "wait_done" /\ now = 0 /\ Current.method = "copypaste"
    /\ LET found == RegexFindAll(PrepareData(Current.data), screen)
       IN /\ Len(found) >= 2
          /\ found[1] # found[Len(found)]
          /\ term[2].txt = found[Len(found)] \o <<NL>>

\* the text without its trailing newlines, and its last line
Trimmed(text) == RStrip(text, {NL})
LastLine(text) == LET ls == SplitLines(Trimmed(text)) IN ls[Len(ls)]
LineCount(text) == Len(SplitLines(Trimmed(text)))

\* the sentinels as the claim words them: the last line ends in "$", or in
\* "#" preceded by whitespace
ClaimedPrompt(text) ==
    LET l == LastLine(text)
    IN \/ Len(l) >= 1 /\ l[Len(l)] = "$"
       \/ Len(l) >= 2 /\ l[Len(l)] = "#" /\ l[Len(l) - 1] \in Whitespace

\* the sentinels of the code: the last line is exactly "$" or exactly "/ #",
\* and it is not the first line
ExactPrompt(text) ==
    /\ LineCount(text) >= 2
    /\ LastLine(text) \in { <<"$">>, <<"/", " ", "#">> }

\* the wait_for_prompt contract for a given notion of sentinel
PromptContract(IsPrompt(_)) ==
    /\ pc \in PromptTests =>
         /\ now < deadline
         /\ IF IsPrompt(screen)
            THEN pc' = ResumeOf(pc)
            ELSE pc' = WaitOf(pc) /\ now' > now
    /\ (pc \in PromptWaits /\ now < deadline) => pc' = TestOf(pc)
    /\ (pc \in PromptWaits /\ now >= deadline) =>
         (pc' = "exited" /\ last'.kind = "timeout")

\* C8 as claimed: wait_for_prompt polls while the deadline has not passed,
\* returns at the first poll whose text, trailing newlines trimmed, ends in
\* a line ending in "$" or in "#" preceded by whitespace, sleeps and polls
\* again otherwise, and raises Timeout once the deadline has passed.
C8_ClaimedSentinels == [][PromptContract(ClaimedPrompt)]_vars

\* C8 amended: the same, where the sentinel is a last line that is exactly
\* "$" or exactly "/ #" and is preceded by at least one other line.
C8_ExactSentinels == [][PromptContract(ExactPrompt)]_vars

\* C8 witness: wait_for_prompt has returned on a screen that ends in the
\* "$" line followed by newlines.
C8_Witness ==
    /\ pc = "start"
    /\ EndsWith(screen, <<NL, "$", NL, NL>>)
    /\ now = 0 /\ last = NoExit

\* C9: a catch-up entered while the display is ahead of the target makes
\* one goto to the target and returns, in either mode, without reading the
\* operator.
C9_AheadGoesDirectly ==
    [][(pc = "catchup" /\ slide_on_screen > Current.slide) =>
          /\ slide_on_screen' = Current.slide
          /\ sync' = <<Ev("goto", <<>>, Current.slide)>>
          /\ pc' = "command"
          /\ state' = state]_vars

\* C9 witness: in interactive mode a catch-up has ended with a single goto
\* back to slide 1 and no operator read.
C9_Witness ==
    /\ pc = "command"
    /\ state.interactive
    /\ Current.slide = 1
    /\ slide_on_screen = 1
    /\ sync = <<Ev("goto", <<>>, 1)>>

\* the operator has just entered the step number k
Entered(k) ==
    /\ pc = "command"
    /\ Len(sync') > Len(Read)
    /\ SubSeq(sync', 1, Len(Read) + 1) = Append(Read, Ev("prompt", <<>>, k))

\* C10: the jump command sets the cursor to the number entered and sends
\* nothing to the terminal; it calls goto(1), making slide 1 the displayed
\* slide, if and only if the number is 0.
C10_JumpSetsCursor ==
    [][\A k \in JumpInputs :
         Entered(k) =>
           /\ state' = [state EXCEPT !.next_step = k]
           /\ pc' = "next"
           /\ term' = <<>>
           /\ IF k = 0
              THEN /\ sync' = Append(Append(Read, Ev("prompt", <<>>, k)), Ev("goto", <<>>, 1))
                   /\ slide_on_screen' = 1
              ELSE /\ sync' = Append(Read, Ev("prompt", <<>>, k))
                   /\ slide_on_screen' = slide_on_screen]_vars

\* C10 witness: a jump to 0 from a later slide has reset the deck.
C10_Witness ==
    /\ pc = "next"
    /\ state.next_step = 0
    /\ slide_on_screen = 1
    /\ Len(sync) >= 2
    /\ sync[Len(sync)] = Ev("goto", <<>>, 1)
    /\ sync[Len(sync) - 1] = Ev("prompt", <<>>, 0)
    /\ \E i \in 1..(Len(sync) - 2) : sync[i] = Ev("goto", <<>>, 3)

\* C11: for every cursor in 0 .. len(actions) and every combination of the
\* three flags, loading what save has written succeeds and yields the
\* cursor and the three flags that were saved.
C11_SaveLoadRoundTrip ==
    [][pc = "round_saved" =>
          /\ pc' = "round_loaded"
          /\ state'.next_step = state.next_step
          /\ state'.interactive = state.interactive
          /\ state'.verify_status = state.verify_status
          /\ state'.simulate_type = state.simulate_type]_vars

\* C11 witness: a state with the cursor at len(actions) and every flag away
\* from its default has been saved and loaded.
C11_Witness ==
    /\ pc = "round_loaded"
    /\ state.next_step = Len(actions)
    /\ ~state.interactive /\ state.verify_status /\ ~state.simulate_type
    /\ disk = DumpState(state)

\* the methods that act on the shell or read its screen
ShellMethods == {"bash", "copypaste", "open"}

\* the calls on the terminal made so far belong to the dispatch of the
\* action at the cursor
InDispatch ==
    /\ pc \notin {"next", "start", "loaded"}
    /\ Len(term) >= 1
    /\ 0 <= state.next_step /\ state.next_step < Len(actions)

\* C12: the dispatch of a bash, copypaste or open action starts with a
\* wait_for_prompt: the first call it makes on the terminal is that wait,
\* and the screen is captured or keys are sent only after it has returned.
C12_PromptBeforeInteraction ==
    (InDispatch /\ Current.method \in ShellMethods) =>
        /\ term[1] = Ev("wait_for_prompt", <<>>, TIMEOUT)
        /\ Len(term) >= 2 => pc \notin {"bash_ready", "bash_ready_test"}

\* the wait a shell action makes after sending its input when it is followed
\* by the action nxt, as the bash branch chooses it
MarkerOrPrompt(nxt) ==
    IF nxt.method = "wait" THEN Ev("wait_for_string", nxt.data, TIMEOUT)
    ELSE IF nxt.method = "longwait" THEN Ev("wait_for_string", nxt.data, 10 * TIMEOUT)
    ELSE Ev("wait_for_prompt", <<>>, TIMEOUT)

\* C13: once a copypaste action has sent its input, the wait that follows is
\* the one bash would make: for the data of the next action when that action
\* is a wait or a longwait (ten times the timeout for longwait), for a
\* prompt otherwise.
C13_CopypasteWaitsForMarker ==
    ( /\ InDispatch /\ Current.method = "copypaste"
      /\ Len(term) >= 3 /\ term[2].op = "send_keys"
      /\ HasAction(state.next_step + 1) ) =>
        term[3] = MarkerOrPrompt(ActionAt(state.next_step + 1))

\* the reads of the operator (a key or a number) among the events
Reads(events) == SelectSeq(events, LAMBDA e : e.op \in {"getchar", "prompt"})

\* this step applies the run-to-failure command
ContinueStep == pc = "command" /\ state.interactive /\ ~state'.interactive

\* in a non-interactive run nothing is read from the operator, the command
\* is always execute, and the mode stays non-interactive until the process
\* exits
RunsUnattended ==
    (~state.interactive /\ pc # "exited") =>
        /\ Len(Reads(sync')) <= Len(Reads(sync))
        /\ ~state'.interactive
        /\ pc = "command" => pc' = "dispatch"

\* C14 as claimed: the run-to-failure command sets interactive to false and
\* goes on to dispatch the action at the cursor within the same command,
\* with no save and no iteration boundary in between; from then on nothing
\* is read from the operator and interactive stays false.
C14_ContinueFallsThrough ==
    [][ /\ ContinueStep =>
             /\ pc' = "dispatch"
             /\ state' = [state EXCEPT !.interactive = FALSE]
        /\ RunsUnattended ]_vars

\* C14 amended: the run-to-failure command only sets interactive to false
\* and ends the iteration, sending nothing; the action at the cursor is
\* executed by the next iteration, after that iteration has saved the state
\* (with interactive false) and caught up the display; from then on nothing
\* is read from the operator and interactive stays false.
C14_ContinueEndsIteration ==
    [][ /\ ContinueStep =>
             /\ pc' = "next"
             /\ state' = [state EXCEPT !.interactive = FALSE]
             /\ term' = <<>>
             /\ UNCHANGED <<disk, slide_on_screen>>
        /\ (pc = "command" /\ ~state.interactive) =>
             /\ disk = DumpState(state)
             /\ slide_on_screen = Current.slide
        /\ RunsUnattended ]_vars

\* C14 witness: the operator pressed c at the second action; the record
\* still says interactive and nothing was dispatched.
C14_Witness ==
    /\ pc = "next"
    /\ ~state.interactive
    /\ state.next_step = 1
    /\ Len(sync) >= 1 /\ sync[Len(sync)] = Getchar
    /\ term = <<>>
    /\ disk.interactive = "true"

\* C15: an open action whose captured screen holds a bracketed address at
\* the start of a line does not fail: once the URL has been handed to the
\* browser and the focus switched, the run goes on (reading one key when
\* interactive) and the cursor advances.
C15_OpenCompletes ==
    ( /\ InDispatch /\ Current.method = "open"
      /\ term[1].op = "capture_pane"
      /\ Len(BracketFindAll(screen)) >= 1 ) =>
        pc # "exited"

\* the dispatch of a bash action that is the last of the list has sent its
\* text and the process has ended
LastBashEnded ==
    /\ pc = "exited"
    /\ state.next_step = Len(actions) - 1
    /\ Current.method = "bash"
    /\ Len(term) >= 2 /\ term[2].op = "send_keys"

\* C16: when the bash action executed is the last of the list, the
\* lookahead on the next action ends the run with the explicit
\* malformed-sequence error, not with an out-of-bounds access, and the
\* cursor is left as it was.
C16_LastBashIsMalformed ==
    LastBashEnded =>
        /\ last.kind = "malformed"
        /\ last.cursor = state.next_step
        /\ disk.next_step = YInt(state.next_step)

Gotos(events) == SelectSeq(events, LAMBDA e : e.op = "goto")

\* an iteration has ended on a command other than execute
CommandApplied == pc = "next" /\ sync # <<>>

\* the only goto among the events is the goto(1) of a jump to step 0
OnlyJumpReset(events) ==
    \A i \in 1..Len(events) :
        events[i].op = "goto" =>
            /\ i = Len(events) /\ i >= 2
            /\ events[i] = Ev("goto", <<>>, 1)
            /\ events[i - 1] = Ev("prompt", <<>>, 0)

\* C17 as claimed: the catch-up belongs to the execute command, so an
\* iteration whose command is advance, retreat, a toggle, jump, quit or an
\* unknown key calls no goto on the display, the goto(1) of a jump to 0
\* excepted.
C17_CatchupOnlyOnExecute ==
    (CommandApplied \/ (pc = "exited" /\ last.kind = "quit")) => OnlyJumpReset(sync)

\* C17 amended: the catch-up for the current action's slide runs in every
\* iteration, between the save and the reading of the command, whatever the
\* command turns out to be; applying a command never moves the display
\* (the goto(1) of a jump to 0 excepted), and the execute command goes
\* straight to the dispatch.
C17_CatchupBeforeCommand ==
    [][ /\ pc = "save" => pc' \in {"catchup", "exited"}
        /\ pc' = "command" =>
             /\ pc \in {"catchup", "catchup_loop"}
             /\ state' = state
             /\ Reads(sync') = Reads(sync) =>
                    slide_on_screen' >= ActionAt(state.next_step).slide
        /\ pc = "command" =>
             /\ (slide_on_screen' # slide_on_screen \/ Len(Gotos(sync')) > Len(Gotos(sync))) =>
                    (Entered(0) /\ slide_on_screen' = 1)
             /\ pc' = "dispatch" => (sync' = <<>> /\ term' = <<>>)
        /\ pc' = "dispatch" => pc = "command" ]_vars

\* C17 witness: an iteration whose command was advance has moved the
\* display from the unknown slide to slide 1 before the command was read.
C17_Witness ==
    /\ pc = "next"
    /\ sync = <<Getchar, Ev("goto", <<>>, 1), Getchar>>
    /\ state.next_step = 1
    /\ disk.next_step = YInt(0)
    /\ slide_on_screen = 1

\* where the process is while it dispatches the action at the cursor
DispatchPcs ==
    {"dispatch", "bash_ready", "bash_ready_test", "bash_send", "wait_string",
     "wait_string_test", "string_found", "wait_done", "wait_done_test",
     "check_status", "status_wait", "status_wait_test", "status_read"}

\* C18: in non-interactive mode the catch-up of an iteration makes no goto
\* when the display is already on the slide of the current action and
\* exactly one goto, to that slide, otherwise (behind, unknown or ahead);
\* the display is on that slide when the command is applied and all through
\* the dispatch.
C18_UnattendedDisplayInSync ==
    [][ ~state.interactive =>
          /\ pc = "catchup" => sync = <<>>
          /\ pc = "catchup_loop" =>
                \/ sync = <<>>
                \/ sync = <<Ev("goto", <<>>, Current.slide)>>
                     /\ slide_on_screen = Current.slide
          /\ (pc \in {"catchup", "catchup_loop"} /\ slide_on_screen = Current.slide) =>
                UNCHANGED <<slide_on_screen, sync>>
          /\ (pc \in {"catchup", "catchup_loop"} /\ slide_on_screen # Current.slide) =>
                (pc = "catchup" /\ pc' = "catchup_loop" /\ UNCHANGED <<slide_on_screen, sync>>)
                \/ ( /\ slide_on_screen' = Current.slide
                     /\ sync' = <<Ev("goto", <<>>, Current.slide)>> )
          /\ pc \in {"command"} \cup DispatchPcs =>
                slide_on_screen = Current.slide
          /\ pc = "command" => (pc' = "dispatch" /\ Len(Gotos(sync)) <= 1) ]_vars

\* C18 witness: a non-interactive iteration found the display behind the
\* third slide and reached it with one goto.
C18_Witness ==
    /\ pc = "command"
    /\ ~state.interactive
    /\ Current.slide = 3
    /\ slide_on_screen = 3
    /\ sync = <<Ev("goto", <<>>, 3)>>
    /\ state.next_step >= 1

\* where the process is inside an iteration, from the save to the end of
\* the dispatch
IterationPcs == {"catchup", "catchup_loop", "command"} \cup DispatchPcs

\* the durable record along a run: written only by the save at the top of
\* an iteration, hence with a cursor below len(actions) and equal to the
\* cursor the iteration started with; after Complete it lags behind the
\* final cursor and a restart re-enters the loop; QuitRecord says how the
\* record and the final cursor relate after quit
RecordContract(QuitRecord(_, _)) ==
    /\ disk' # disk =>
         /\ state.next_step < Len(actions)
         /\ \/ pc \in {"loaded", "next"} /\ disk' = EmptyFile
            \/ pc = "save" /\ disk' = DumpState(state)
    /\ pc \in IterationPcs => disk = DumpState(state)
    /\ (pc = "next" /\ pc' = "exited") =>
         /\ last' = [kind |-> "complete", cursor |-> state.next_step]
         /\ state.next_step >= Len(actions)
         /\ disk'.next_step.val < Len(actions)
         /\ Startup(disk').next_step = disk'.next_step.val
    /\ (pc = "command" /\ pc' = "exited") =>
         /\ last' = [kind |-> "quit", cursor |-> state.next_step]
         /\ QuitRecord(disk', state')
         /\ Startup(disk').next_step = disk'.next_step.val
         /\ Startup(disk').next_step < Len(actions)

RecordLags(d, st) == d.next_step # YInt(st.next_step)

RecordIsCurrent(d, st) == d.next_step = YInt(st.next_step)

\* C19 as claimed: the record is written only at the top of an iteration,
\* every cursor written is below len(actions) and is the cursor the
\* iteration started with; after a run ends in Complete or by quit the
\* record does not hold the final cursor, and a restart re-enters the loop
\* at the step of the last iteration.
C19_RecordLagsAfterEnd == [][RecordContract(RecordLags)]_vars

\* C19 amended: the same, except that after quit the record does hold the
\* final cursor (quit leaves the cursor as the save of its iteration wrote
\* it) and a restart resumes at that step.
C19_RecordIsIterationStart == [][RecordContract(RecordIsCurrent)]_vars

\* C19 witness: an unattended run has executed its last action and ended in
\* Complete with the cursor at len(actions), while the record holds the
\* step of that last iteration.
C19_Witness ==
    /\ pc = "exited"
    /\ last.kind = "complete"
    /\ state.next_step = Len(actions)
    /\ disk = DumpState([state EXCEPT !.next_step = Len(actions) - 1])
    /\ ~state.interactive
    /\ sync = <<>>

\* the steps left in an iteration, by the place of the process: an upper
\* bound on the polls a wait has left, and the order of the places
PollsLeft(n, d) == IF n < d THEN 2 * (d - n) ELSE 0

StageSpan == 2 * 10 * TIMEOUT + 2

StageOf(p) ==
    CASE p \in {"loaded", "next"} -> 15
      [] p = "save" -> 14
      [] p = "catchup" -> 13
      [] p = "catchup_loop" -> 12
      [] p = "command" -> 11
      [] p = "dispatch" -> 10
      [] p \in {"bash_ready", "bash_ready_test"} -> 9
      [] p = "bash_send" -> 8
      [] p \in {"wait_string", "wait_string_test", "wait_done", "wait_done_test"} -> 7
      [] p \in {"string_found", "check_status"} -> 6
      [] p \in {"status_wait", "status_wait_test"} -> 5
      [] p = "status_read" -> 4
      [] OTHER -> 16

WithinStage(p, st, n, d, shown) ==
    IF p \in PromptWaits \cup {"wait_string"} THEN PollsLeft(n, d) + 1
    ELSE IF p \in PromptTests \cup {"wait_string_test"} THEN PollsLeft(n, d)
    ELSE IF p = "catchup_loop" /\ shown < actions[PyIndex(Len(actions), st.next_step)].slide
    THEN 1
    ELSE 0

\* a measure of what a non-interactive run has left to do: the iterations
\* left from the cursor to len(actions), then the places left in the
\* iteration, then the polls left in the wait
RankOf(p, st, n, d, shown) ==
    16 * StageSpan * (Len(actions) - st.next_step)
    + StageSpan * StageOf(p) + WithinStage(p, st, n, d, shown)

Rank == RankOf(pc, state, now, deadline, slide_on_screen)

\* how a run ends when it is not the operator who quits
Ends == {"complete", "crash", "index", "name"} \cup Fatal

\* C20: once interactive is false the run terminates: every step it takes
\* lowers a measure that is never negative, in which an iteration weighs
\* more than anything inside it, so that from cursor c at most
\* len(actions) - c iterations are left; an iteration ends in a failure or
\* adds exactly one to the cursor; the run ends in Complete or in a failure;
\* a failing dispatch changes neither the cursor nor any flag.
C20_UnattendedRunTerminates ==
    [][ /\ (~state.interactive /\ pc # "exited") =>
             /\ Rank >= 0
             /\ pc \in IterationPcs \cup {"save"} => state.next_step < Len(actions)
             /\ pc' = "exited" \/ (pc' # "start" /\ Rank' < Rank)
             /\ pc' = "exited" => last'.kind \in Ends
             /\ pc' = "next" => state' = [state EXCEPT !.next_step = @ + 1]
             /\ pc' # "next" => state' = state
        /\ (pc \in DispatchPcs /\ pc' = "exited") =>
             /\ state' = state
             /\ last'.cursor = state.next_step ]_vars

\* C20 witness: a non-interactive run has waited for the string of a
\* longwait action until its deadline of ten times the timeout and failed.
C20_Witness ==
    /\ pc = "exited"
    /\ ~state.interactive
    /\ last.kind = "timeout"
    /\ deadline = 10 * TIMEOUT
    /\ now >= deadline

====
